---- MODULE Spec2Model ----
(***************************************************************************)
(* Model of qcodes_logger: the DynamicStation reconciler                   *)
(* (src/dynamic_station.py), the MustUpdateParameter cell with its         *)
(* check_parameters_updated sweep (src/must_update_parameter.py) and the   *)
(* annotation helpers (src/annotations.py).                                *)
(***************************************************************************)
EXTENDS Integers, Sequences, FiniteSets, TLC

(***************************************************************************)
(* Bounds of the model.                                                    *)
(***************************************************************************)
\* number of distinct component objects
MaxObj == 4
\* longest list of parameters handed to check_parameters_updated
MaxSweepLen == 3

(***************************************************************************)
(* Generic helpers.                                                        *)
(***************************************************************************)
Range(s) == {s[i] : i \in 1..Len(s)}

SeqsUpTo(S, n) == UNION {[1..k -> S] : k \in 0..n}

\* every iteration order of a set
RECURSIVE Orders(_)
Orders(S) ==
    IF S = {} THEN {<<>>}
    ELSE UNION {{<<x>> \o s : s \in Orders(S \ {x})} : x \in S}

(***************************************************************************)
(* DynamicStation: components and configurations.                          *)
(*                                                                         *)
(* A component object is an integer; two objects may carry the same name   *)
(* (objects 1 and 2 are both named 1, every other object has its own name).*)
(* A configuration is the set of the objects in its list: the code only    *)
(* concatenates the lists and then takes set(...) or the names of them.    *)
(***************************************************************************)
Objects == 1..MaxObj

\* component.name
NameOf(o) == IF o = 1 THEN 1 ELSE o - 1

NamesOf(objs) == {NameOf(o) : o \in objs}

ProfileKeys == {"cooldown", "warm"}

\* dict[str, list[component]]: any subset of the keys may be present
Catalogues == UNION {[D -> SUBSET Objects] : D \in SUBSET ProfileKeys}

\* Station.components: dict name -> component, each stored under its own name
Registries ==
    UNION {{r \in [D -> Objects] : \A n \in D : NameOf(r[n]) = n} :
             D \in SUBSET NamesOf(Objects)}

\* the catalogues handed to set_component_configurations after construction:
\* at most one key, whose configuration is empty or holds one component
SmallCatalogues ==
    UNION {[D -> {{}} \cup {{o} : o \in Objects}] :
             D \in {{}} \cup {{k} : k \in ProfileKeys}}

\* the lists of keys handed to adjust_station_to_meas_setup: as long as the
\* number of keys, which leaves room for either order and for a repeated key
ConfigLists == SeqsUpTo(ProfileKeys, Cardinality(ProfileKeys))

VARIABLES
    components,      \* DynamicStation.components (the live registry)
    configurations,  \* DynamicStation._component_configurations
    last,            \* record of the last DynamicStation call (history)
    params,          \* the MustUpdateParameter objects, by name
    hist,            \* per parameter: what has happened to it so far (history)
    res,             \* record of the last parameter operation (history)
    track,           \* per followed parameter: its value at the last
                     \* successful sweep and the sets since; while that sweep
                     \* is the last operation, also the value at the sweep
                     \* before and the sets between the two (history)
    metadata,        \* run id -> the metadata of that run in the data store
    note             \* record of the last annotation call (history)

stationVars == <<components, configurations, last>>

cellVars == <<params, hist, res, track>>

annotVars == <<metadata, note>>

vars == <<components, configurations, last, params, hist, res, track,
          metadata, note>>

\* a plausible slip: only the first key of the list is looked up
EnsureFirstOnly(configs, config) ==
    IF config = <<>> THEN {} ELSE configs[config[1]]

\* line 43: sum([configs[k] for k in config], [])
ComponentsToEnsure(configs, config) ==
    UNION {configs[k] : k \in Range(config)}

\* lines 44-47: objects of the configurations not named, minus those ensured
ComponentsToRemove(configs, config) ==
    (UNION {configs[k] : k \in DOMAIN configs \ Range(config)})
        \ ComponentsToEnsure(configs, config)

\* a plausible slip: the second half of the test on lines 58-60 is dropped
MustRemoveNoEnsureCheck(reg, configs, config) ==
    LET removeNames == NamesOf(ComponentsToRemove(configs, config))
    IN {n \in DOMAIN reg : n \in removeNames}

\* a plausible slip: nothing is ever marked for removal
MustRemoveNothing(reg, configs, config) == {}

\* lines 56-61: names of the live components marked for removal
MustRemoveComponents(reg, configs, config) ==
    LET removeNames == NamesOf(ComponentsToRemove(configs, config))
        ensureNames == NamesOf(ComponentsToEnsure(configs, config))
    IN {n \in DOMAIN reg : n \in removeNames /\ n \notin ensureNames}

\* a plausible slip: the warning of lines 62-69 is never issued
WarnedNothing(reg, configs, config) == {}

\* lines 62-69: names of the live components that are warned about
WarnedComponents(reg, configs, config) ==
    LET removeNames == NamesOf(ComponentsToRemove(configs, config))
        ensureNames == NamesOf(ComponentsToEnsure(configs, config))
    IN {n \in DOMAIN reg :
          /\ ~ (n \in removeNames /\ n \notin ensureNames)
          /\ n \notin ensureNames}

\* lines 70-71: Station.remove_component for every marked name
RemoveComponents(reg, names) == [n \in DOMAIN reg \ names |-> reg[n]]

\* line 75: Station.add_component stores the component under its name
AddComponent(reg, c) ==
    [n \in DOMAIN reg \cup {NameOf(c)} |-> IF n = NameOf(c) THEN c ELSE reg[n]]

\* a plausible slip: the presence test of line 74 is dropped and a live
\* component of the same name is replaced
RECURSIVE AddAlways(_, _)
AddAlways(reg, order) ==
    IF order = <<>> THEN reg
    ELSE AddAlways(AddComponent(reg, Head(order)), Tail(order))

\* lines 73-75: the add loop, in the iteration order of set(components_to_ensure)
RECURSIVE AddComponents(_, _)
AddComponents(reg, order) ==
    IF order = <<>> THEN reg
    ELSE AddComponents(
            IF NameOf(Head(order)) \notin DOMAIN reg
                THEN AddComponent(reg, Head(order))
                ELSE reg,
            Tail(order))

NoCall ==
    [op |-> "none", config |-> <<>>, status |-> "ok", pre |-> <<>>,
     removed |-> {}, added |-> {}, warned |-> {},
     repeat |-> FALSE, superset |-> FALSE]

\* __init__ (lines 23-31): Station.__init__ registers *components, then the
\* configurations argument is stored
StationInit ==
    /\ components \in Registries
    /\ configurations \in Catalogues
    /\ last = NoCall
    /\ params = <<>>
    /\ hist = <<>>
    /\ res = <<>>
    /\ track = <<>>
    /\ metadata = <<>>
    /\ note = <<>>

\* a station built without components (line 29 with no *components); every
\* component that is live later was added by adjust_station_to_meas_setup
ProfilesInit ==
    /\ components = <<>>
    /\ configurations \in Catalogues
    /\ last = NoCall
    /\ params = <<>>
    /\ hist = <<>>
    /\ res = <<>>
    /\ track = <<>>
    /\ metadata = <<>>
    /\ note = <<>>

\* a plausible slip: the new configurations are merged into the old ones
SetComponentConfigurationsMerges(cat) ==
    /\ configurations' = [k \in DOMAIN configurations \cup DOMAIN cat |->
                             IF k \in DOMAIN cat THEN cat[k]
                                                 ELSE configurations[k]]
    /\ last' = [NoCall EXCEPT !.op = "set_component_configurations",
                              !.pre = components]
    /\ UNCHANGED components
    /\ UNCHANGED <<cellVars, annotVars>>

\* set_component_configurations (lines 33-37)
SetComponentConfigurations(cat) ==
    /\ configurations' = cat
    /\ last' = [NoCall EXCEPT !.op = "set_component_configurations",
                              !.pre = components]
    /\ UNCHANGED components
    /\ UNCHANGED <<cellVars, annotVars>>

\* a plausible slip: the keys are looked up one by one while the components
\* are removed, and the missing key is met after the removals
AdjustKeyErrorAfterRemoval(config) ==
    /\ \E k \in Range(config) : k \notin DOMAIN configurations
    /\ components' =
          RemoveComponents(
              components,
              MustRemoveComponents(
                  components, configurations,
                  SelectSeq(config, LAMBDA k : k \in DOMAIN configurations)))
    /\ last' = [NoCall EXCEPT !.op = "adjust_station_to_meas_setup",
                              !.config = config, !.status = "KeyError",
                              !.pre = components]
    /\ UNCHANGED configurations
    /\ UNCHANGED <<cellVars, annotVars>>

\* adjust_station_to_meas_setup (lines 39-77), a key that is missing from
\* the configurations: configs[k] raises KeyError on line 43
AdjustKeyError(config) ==
    /\ \E k \in Range(config) : k \notin DOMAIN configurations
    /\ last' = [NoCall EXCEPT !.op = "adjust_station_to_meas_setup",
                              !.config = config, !.status = "KeyError",
                              !.pre = components]
    /\ UNCHANGED <<components, configurations>>
    /\ UNCHANGED <<cellVars, annotVars>>

\* a plausible slip: the loop adds every component of the list, live or not
AddOutcomesAlways(reg, ensure) ==
    {AddAlways(reg, order) : order \in Orders(ensure)}

\* the registries the add loop can leave, one per iteration order of
\* set(components_to_ensure) (lines 73-75); a component whose name is live
\* before the loop is skipped by line 74 wherever it stands, so only the
\* orders of the other components are told apart
AddOutcomes(reg, ensure) ==
    {AddComponents(reg, order) :
        order \in Orders({o \in ensure : NameOf(o) \notin DOMAIN reg})}

\* adjust_station_to_meas_setup (lines 39-77), every key present
AdjustStation(config) ==
    /\ Range(config) \subseteq DOMAIN configurations
    /\ LET ensure == ComponentsToEnsure(configurations, config)
           marked == MustRemoveComponents(components, configurations, config)
           kept   == RemoveComponents(components, marked)
       IN \E after \in AddOutcomes(kept, ensure) :
            /\ components' = after
            /\ last' =
                 [op |-> "adjust_station_to_meas_setup",
                  config |-> config,
                  status |-> "ok",
                  pre |-> components,
                  removed |-> marked,
                  added |-> {o \in ensure :
                               /\ after[NameOf(o)] = o
                               /\ \/ NameOf(o) \notin DOMAIN kept
                                  \/ kept[NameOf(o)] # o},
                  warned |-> WarnedComponents(
                                components, configurations, config),
                  repeat |-> /\ last.op = "adjust_station_to_meas_setup"
                             /\ last.status = "ok"
                             /\ last.config = config,
                  superset |-> /\ last.op = "adjust_station_to_meas_setup"
                               /\ last.status = "ok"
                               /\ Range(last.config) \subseteq Range(config)]
    /\ UNCHANGED configurations
    /\ UNCHANGED <<cellVars, annotVars>>

StationNext ==
    \/ \E cat \in SmallCatalogues : SetComponentConfigurations(cat)
    \/ \E config \in ConfigLists : AdjustKeyError(config)
    \/ \E config \in ConfigLists : AdjustStation(config)

(***************************************************************************)
(* Claims about adjust_station_to_meas_setup.  They are read in the state  *)
(* right after a call that returned: `last` holds the call, `components`   *)
(* the registry it left and `configurations` the catalogue it used.        *)
(***************************************************************************)
Adjusted ==
    /\ last.op = "adjust_station_to_meas_setup"
    /\ last.status = "ok"

\* names of the components of the configurations named in the last call
ActiveNames ==
    NamesOf(UNION {configurations[k] : k \in Range(last.config)})

\* names of the components of the configurations not named in the last call
InactiveNames ==
    NamesOf(UNION {configurations[k] :
                     k \in DOMAIN configurations \ Range(last.config)})

\* names of the components of every configuration of the catalogue
CatalogueNames ==
    NamesOf(UNION {configurations[k] : k \in DOMAIN configurations})

\* names of the components that were live before the last call and belong
\* to no configuration
UntrackedBefore == DOMAIN last.pre \ CatalogueNames

\* C1: when adjust_station_to_meas_setup(A) returns, every component name
\* of every configuration named in A is in the registry, and no name that
\* belongs only to configurations not named in A is in the registry.
C1_RegistryMatchesActive ==
    Adjusted =>
        /\ ActiveNames \subseteq DOMAIN components
        /\ (InactiveNames \ ActiveNames) \cap DOMAIN components = {}

\* a call that had to remove an inactive-only component and to add an
\* active one
C1_Witness ==
    /\ Adjusted
    /\ last.removed # {}
    /\ last.added # {}

\* C2: the call never removes a component whose name belongs to a
\* configuration named as active, also when an inactive configuration
\* holds another object of the same name: the live component stays, as the
\* same object.
C2_ActiveNeverRemoved ==
    Adjusted =>
        /\ last.removed \cap ActiveNames = {}
        /\ \A n \in DOMAIN last.pre \cap ActiveNames :
              n \in DOMAIN components /\ components[n] = last.pre[n]

\* the live component is the object of an inactive configuration, and an
\* active configuration holds a different object of the same name
C2_Witness ==
    /\ Adjusted
    /\ \E n \in DOMAIN last.pre :
          /\ n \in ActiveNames
          /\ \E k \in DOMAIN configurations \ Range(last.config) :
                last.pre[n] \in configurations[k]
          /\ \A k \in Range(last.config) :
                last.pre[n] \notin configurations[k]

\* C3: a call that repeats the previous call's list, with nothing done in
\* between, adds nothing, removes nothing and leaves the registry as the
\* first call left it.
C3_Idempotent ==
    (Adjusted /\ last.repeat) =>
        /\ last.removed = {}
        /\ last.added = {}
        /\ components = last.pre

\* a repeated call under a catalogue with active and inactive-only
\* components, on a registry that is not empty
C3_Witness ==
    /\ Adjusted
    /\ last.repeat
    /\ ActiveNames # {}
    /\ InactiveNames \ ActiveNames # {}
    /\ Cardinality(DOMAIN components) >= 2

\* C4 as stated: after reconcile(A) then reconcile(B) with A a subset of B,
\* the registry's names are exactly the names of the configurations named
\* in B, and the second call removes nothing.
C4_SupersetExact ==
    (Adjusted /\ last.superset) =>
        /\ DOMAIN components = ActiveNames
        /\ last.removed = {}

\* C4 as amended: the registry's names are exactly the names of the
\* configurations named in B together with the names of the live components
\* that belong to no configuration, and the second call removes nothing.
C4_SupersetExactUpToUntracked ==
    (Adjusted /\ last.superset) =>
        /\ DOMAIN components = ActiveNames \cup UntrackedBefore
        /\ last.removed = {}

\* a strict superset whose extra configuration made the call add a
\* component, with an untracked component live
C4_Witness ==
    /\ Adjusted
    /\ last.superset
    /\ ~ last.repeat
    /\ last.added # {}
    /\ UntrackedBefore # {}

\* the registry r without the component named u
Without(r, u) == [n \in DOMAIN r \ {u} |-> r[n]]

\* C5: a live component whose name is in no configuration is warned about,
\* the call still returns, the component stays in the registry, and the
\* call removes and adds exactly what it would on the registry without it.
C5_WarnAndContinue ==
    Adjusted =>
        \A u \in UntrackedBefore :
            /\ u \in last.warned
            /\ u \in DOMAIN components
            /\ components[u] = last.pre[u]
            /\ LET marked == MustRemoveComponents(
                                Without(last.pre, u), configurations, last.config)
                   kept == RemoveComponents(Without(last.pre, u), marked)
                   ensure == ComponentsToEnsure(configurations, last.config)
               IN /\ last.removed = marked
                  /\ Without(components, u) \in AddOutcomes(kept, ensure)
                  /\ last.added =
                        {o \in ensure : /\ NameOf(o) \notin DOMAIN kept
                                        /\ components[NameOf(o)] = o}

\* an untracked component was live while the call removed one component
\* and added another
C5_Witness ==
    /\ Adjusted
    /\ UntrackedBefore # {}
    /\ last.removed # {}
    /\ last.added # {}

\* C18: adjust_station_to_meas_setup called with a list that holds a key
\* missing from the configurations fails, and fails before it touches the
\* registry: the registry and the configurations are as before the call.
C18_UnknownKeyFailsFirst ==
    [][(/\ last'.op = "adjust_station_to_meas_setup"
        /\ \E k \in Range(last'.config) : k \notin DOMAIN configurations)
       => /\ last'.status = "KeyError"
          /\ components' = components
          /\ configurations' = configurations]_vars

\* the call failed on a missing key while a component of a configuration it
\* did not name was live
C18_Witness ==
    /\ last.op = "adjust_station_to_meas_setup"
    /\ last.status = "KeyError"
    /\ \E k \in DOMAIN configurations \ Range(last.config) :
          \E o \in configurations[k] :
             /\ NameOf(o) \in DOMAIN components
             /\ \A j \in Range(last.config) \cap DOMAIN configurations :
                   NameOf(o) \notin NamesOf(configurations[j])

\* C19: set_component_configurations replaces the configurations as a whole
\* and leaves the registry alone; every later adjust_station_to_meas_setup
\* removes and adds from the configurations it finds, so a live component
\* whose name is in none of them stays in the registry.
C19_SetProfilesReplaces ==
    [][/\ \A cat \in SmallCatalogues :
             (/\ last'.op = "set_component_configurations"
              /\ SetComponentConfigurations(cat))
             => /\ configurations' = cat
                /\ components' = components
       /\ (/\ last'.op = "adjust_station_to_meas_setup"
           /\ last'.status = "ok")
          => /\ last'.removed \subseteq CatalogueNames
             /\ last'.added \subseteq
                   UNION {configurations[k] : k \in DOMAIN configurations}
             /\ \A n \in DOMAIN components \ CatalogueNames :
                   /\ n \in DOMAIN components'
                   /\ components'[n] = components[n]]_vars

\* on a station built empty, a call removed a component while a component
\* added under earlier configurations, its name in none of the present ones,
\* stayed
C19_Witness ==
    /\ Adjusted
    /\ last.removed # {}
    /\ \E n \in DOMAIN last.pre \ CatalogueNames : n \in DOMAIN components

(***************************************************************************)
(* MustUpdateParameter and check_parameters_updated.                       *)
(***************************************************************************)
Cells == {"X", "Y"}

\* self._value = None (line 47)
NoValue == "None"

Values == {NoValue, "", "a"}

ParamLists == SeqsUpTo(Cells, MaxSweepLen)

\* a plausible slip: the flags are reset before the test of line 65
SetRawResetsFirst(p, val) ==
    IF p.value = val /\ p.new_value_must_differ
        THEN [param |-> [p EXCEPT !.latest_value_in_measurement = FALSE,
                                  !.latest_value_read = FALSE],
              status |-> "NonDistinctValue"]
        ELSE [param |-> [p EXCEPT !.latest_value_in_measurement = FALSE,
                                  !.latest_value_read = FALSE,
                                  !.value = val],
              status |-> "ok"]

\* a plausible slip: line 72 is missing, the read flag survives a set
SetRawKeepsRead(p, val) ==
    IF p.value = val /\ p.new_value_must_differ
        THEN [param |-> p, status |-> "NonDistinctValue"]
        ELSE [param |-> [p EXCEPT !.latest_value_in_measurement = FALSE,
                                  !.value = val],
              status |-> "ok"]

\* a plausible slip: the test of line 65 is missing
SetRawAcceptsSame(p, val) ==
    [param |-> [p EXCEPT !.latest_value_in_measurement = FALSE,
                         !.latest_value_read = FALSE,
                         !.value = val],
     status |-> "ok"]

\* set_raw (lines 64-74): the parameter after the call and how it ended
SetRaw(p, val) ==
    IF p.value = val /\ p.new_value_must_differ
        THEN [param |-> p, status |-> "NonDistinctValue"]
        ELSE [param |-> [p EXCEPT !.latest_value_in_measurement = FALSE,
                                  !.latest_value_read = FALSE,
                                  !.value = val],
              status |-> "ok"]

\* a plausible slip: line 55 tests the read flag alone
GetRawAlwaysStrict(p) ==
    IF p.latest_value_read
        THEN [param |-> p, status |-> "StaleRead"]
        ELSE [param |-> [p EXCEPT !.latest_value_read = TRUE], status |-> "ok"]

\* a plausible slip: the strict test of line 55 is missing
GetRawNeverStale(p) ==
    [param |-> [p EXCEPT !.latest_value_read = TRUE], status |-> "ok"]

\* get_raw (lines 54-62): the parameter after the call and how it ended
GetRaw(p) ==
    IF p.latest_value_read /\ p.strict
        THEN [param |-> p, status |-> "StaleRead"]
        ELSE [param |-> [p EXCEPT !.latest_value_read = TRUE], status |-> "ok"]

\* a plausible slip: the else branch of lines 107-108 is missing, so the
\* sweep checks the flag and never sets it
RECURSIVE SweepNeverMarks(_, _, _)
SweepNeverMarks(ps, list, i) ==
    IF i > Len(list) THEN [params |-> ps, status |-> "ok", at |-> 0]
    ELSE IF ps[list[i]].latest_value_in_measurement
        THEN LET got == GetRaw(ps[list[i]]) IN
             [params |-> [ps EXCEPT ![list[i]] = got.param],
              status |-> IF got.status = "ok" THEN "StaleParameter"
                                              ELSE got.status,
              at |-> i]
        ELSE SweepNeverMarks(ps, list, i + 1)

\* a plausible slip: the sweep marks every parameter first and checks after,
\* so a failing sweep also marks the parameters behind the stale one
RECURSIVE SweepMarksAll(_, _, _)
SweepMarksAll(ps, list, i) ==
    IF i > Len(list) THEN [params |-> ps, status |-> "ok", at |-> 0]
    ELSE IF ps[list[i]].latest_value_in_measurement
        THEN LET got == GetRaw(ps[list[i]]) IN
             [params |-> [c \in DOMAIN ps |->
                            IF c = list[i] THEN got.param
                            ELSE IF c \in Range(list)
                                THEN [ps[c] EXCEPT
                                        !.latest_value_in_measurement = TRUE]
                                ELSE ps[c]],
              status |-> IF got.status = "ok" THEN "StaleParameter"
                                              ELSE got.status,
              at |-> i]
        ELSE SweepMarksAll(
                [ps EXCEPT ![list[i]].latest_value_in_measurement = TRUE],
                list, i + 1)

\* the loop of check_parameters_updated (lines 100-108) from position i on:
\* the parameters after it, how it ended and the position it stopped at.
\* The message of lines 102-106 is built before the raise and calls param(),
\* which is get_raw: it raises in its place or marks the value as read.
RECURSIVE Sweep(_, _, _)
Sweep(ps, list, i) ==
    IF i > Len(list) THEN [params |-> ps, status |-> "ok", at |-> 0]
    ELSE IF ps[list[i]].latest_value_in_measurement
        THEN LET got == GetRaw(ps[list[i]]) IN
             [params |-> [ps EXCEPT ![list[i]] = got.param],
              status |-> IF got.status = "ok" THEN "StaleParameter"
                                              ELSE got.status,
              at |-> i]
        ELSE Sweep([ps EXCEPT ![list[i]].latest_value_in_measurement = TRUE],
                   list, i + 1)

NoOp == [op |-> "none", list |-> <<>>, val |-> NoValue, status |-> "ok",
         at |-> 0]

\* __init__ (lines 36-51)
NewParameter(differ, strict) ==
    [value |-> NoValue,
     latest_value_in_measurement |-> FALSE,
     latest_value_read |-> FALSE,
     new_value_must_differ |-> differ,
     strict |-> strict]

\* X is constructed with any arguments; Y with the defaults
\* (new_value_must_differ = True, strict = True), as MeasurementDescription
\* (lines 77-79) constructs it
CellsInit ==
    /\ \E differ \in BOOLEAN, strict \in BOOLEAN :
          params = [c \in Cells |-> IF c = "X"
                                     THEN NewParameter(differ, strict)
                                     ELSE NewParameter(TRUE, TRUE)]
    /\ hist = [c \in Cells |-> [everSet |-> FALSE, swept |-> FALSE,
                                claimed |-> FALSE, got |-> FALSE,
                                lastSet |-> NoValue]]
    /\ res = NoOp
    /\ track = <<>>
    /\ metadata = <<>>
    /\ note = <<>>
    /\ components = <<>>
    /\ configurations = <<>>
    /\ last = <<>>

\* the same construction, with the history of sweep values kept for Y
RefreshInit ==
    /\ \E differ \in BOOLEAN, strict \in BOOLEAN :
          params = [c \in Cells |-> IF c = "X"
                                     THEN NewParameter(differ, strict)
                                     ELSE NewParameter(TRUE, TRUE)]
    /\ hist = [c \in Cells |-> [everSet |-> FALSE, swept |-> FALSE,
                                claimed |-> FALSE, got |-> FALSE,
                                lastSet |-> NoValue]]
    /\ res = NoOp
    /\ track = [c \in {"Y"} |-> [sweptVal |-> "never", prevVal |-> "never",
                                 sets |-> "none", between |-> "none"]]
    /\ metadata = <<>>
    /\ note = <<>>
    /\ components = <<>>
    /\ configurations = <<>>
    /\ last = <<>>

\* parameter.get() -> get_raw (lines 54-62)
Get(c) ==
    LET got == GetRaw(params[c]) IN
    /\ params' = [params EXCEPT ![c] = got.param]
    /\ res' = [NoOp EXCEPT !.op = "get", !.list = <<c>>,
                           !.val = params[c].value,
                           !.status = got.status]
    /\ hist' = IF got.status = "ok" THEN [hist EXCEPT ![c].got = TRUE]
                                    ELSE hist
    /\ track' = [t \in DOMAIN track |->
                   [track[t] EXCEPT !.prevVal = "never", !.between = "none"]]
    /\ UNCHANGED <<stationVars, annotVars>>

\* parameter.set(val) -> set_raw (lines 64-74)
Set(c, val) ==
    LET put == SetRaw(params[c], val) IN
    /\ params' = [params EXCEPT ![c] = put.param]
    /\ res' = [NoOp EXCEPT !.op = "set", !.list = <<c>>, !.val = val,
                           !.status = put.status]
    /\ hist' = IF put.status = "ok"
                 THEN [hist EXCEPT ![c].everSet = TRUE, ![c].claimed = FALSE,
                                   ![c].got = FALSE, ![c].lastSet = val]
                 ELSE hist
    /\ track' = [t \in DOMAIN track |->
                   [track[t] EXCEPT
                      !.sets = IF t = c /\ put.status = "ok"
                                 THEN (IF @ = "none" THEN "one" ELSE "many")
                                 ELSE @,
                      !.prevVal = "never", !.between = "none"]]
    /\ UNCHANGED <<stationVars, annotVars>>

\* check_parameters_updated(params) (lines 87-108)
CheckParametersUpdated(list) ==
    LET swept == Sweep(params, list, 1) IN
    /\ params' = swept.params
    /\ res' = [NoOp EXCEPT !.op = "check_parameters_updated", !.list = list,
                           !.status = swept.status, !.at = swept.at]
    /\ hist' = [c \in Cells |->
                  IF c \in Range(list)
                    THEN [hist[c] EXCEPT
                            !.swept = TRUE,
                            !.claimed = IF swept.status = "ok" THEN TRUE ELSE @,
                            !.got = IF /\ swept.status = "StaleParameter"
                                       /\ list[swept.at] = c
                                      THEN TRUE ELSE @]
                    ELSE hist[c]]
    /\ track' = [t \in DOMAIN track |->
                   IF t \in Range(list) /\ swept.status = "ok"
                     THEN [sweptVal |-> params[t].value,
                           prevVal |-> track[t].sweptVal,
                           sets |-> "none",
                           between |-> track[t].sets]
                     ELSE [track[t] EXCEPT !.prevVal = "never",
                                           !.between = "none"]]
    /\ UNCHANGED <<stationVars, annotVars>>

CellsNext ==
    \/ \E c \in Cells : Get(c)
    \/ \E c \in Cells, val \in Values : Set(c, val)
    \/ \E list \in ParamLists : CheckParametersUpdated(list)

(***************************************************************************)
(* Claims about MustUpdateParameter and check_parameters_updated.          *)
(* `res` holds the last operation; an action formula reads the parameters  *)
(* before the operation unprimed and after it primed.                      *)
(***************************************************************************)
Swept == res.op = "check_parameters_updated"

\* the step is a call check_parameters_updated(list)
SweepStep(list) ==
    /\ res'.op = "check_parameters_updated"
    /\ res'.list = list
    /\ CheckParametersUpdated(list)

\* the step is a call c.get()
GetStep(c) ==
    /\ res'.op = "get"
    /\ res'.list = <<c>>
    /\ Get(c)

\* the step is a call c.set(v)
SetStep(c, v) ==
    /\ res'.op = "set"
    /\ res'.list = <<c>>
    /\ Set(c, v)

\* the list holds a parameter that is already recorded when the sweep starts
HasStale(list) ==
    \E i \in 1..Len(list) : params[list[i]].latest_value_in_measurement

\* the first position of the list whose parameter is already recorded when
\* the sweep starts
FirstStale(list) ==
    CHOOSE i \in 1..Len(list) :
        /\ params[list[i]].latest_value_in_measurement
        /\ \A j \in 1..(i - 1) : ~ params[list[j]].latest_value_in_measurement

\* C6: a new parameter has no value, is not read and is already
\* recorded, so every successful sweep includes only parameters that have
\* been set before.
C6_SweepNeedsSet ==
    /\ res.op = "none" =>
          \A c \in Cells : /\ params[c].value = NoValue
                           /\ ~ params[c].latest_value_read
                           /\ params[c].latest_value_in_measurement
    /\ (Swept /\ res.status = "ok") =>
          \A c \in Range(res.list) : hist[c].everSet

\* C7: a sweep that includes a parameter which an earlier successful sweep
\* claimed and which was not set since fails; so between two successful
\* sweeps that include a parameter there is a successful set of it.
C7_SetBetweenSweeps ==
    [][\A list \in ParamLists :
          (SweepStep(list) /\ res'.status = "ok")
          => \A c \in Range(list) : ~ hist[c].claimed]_vars

\* a sweep failed on a parameter that was set, then claimed by a successful
\* sweep and not set since
C7_Witness ==
    /\ Swept
    /\ res.status # "ok"
    /\ hist[res.list[res.at]].claimed
    /\ hist[res.list[res.at]].everSet

\* C8: a sweep that meets an already recorded parameter fails with the
\* stale-parameter error, whatever the parameter's strict setting and read
\* flag are.
C8_StaleParameterError ==
    (Swept /\ res.status # "ok") => res.status = "StaleParameter"

C10_NonDistinctSetChangesNothing ==
    [][\A c \in Cells, v \in Values :
          (/\ SetStep(c, v)
           /\ params[c].new_value_must_differ
           /\ v = params[c].value)
          => /\ res'.status = "NonDistinctValue"
             /\ params' = params]_vars

\* a set of the stored value was refused on a parameter that holds a value
\* and has both flags raised
C10_Witness ==
    /\ res.op = "set"
    /\ res.status = "NonDistinctValue"
    /\ \E c \in Cells :
          /\ res.list = <<c>>
          /\ params[c].value = res.val
          /\ params[c].value # NoValue
          /\ params[c].latest_value_read
          /\ params[c].latest_value_in_measurement

\* C11: on a strict parameter a get issued when the value was already
\* read fails with the stale-read error and leaves the value and both flags
\* of every parameter as they were; so a get succeeds only when no get has
\* succeeded since the last successful set.
C11_StrictSingleGet ==
    [][\A c \in Cells :
          (GetStep(c) /\ params[c].strict) =>
             /\ params[c].latest_value_read =>
                   res'.status = "StaleRead" /\ params' = params
             /\ res'.status = "ok" => ~ hist[c].got]_vars

\* a second get was refused on a strict parameter that was set, read once
\* and recorded
C11_Witness ==
    /\ res.op = "get"
    /\ res.status = "StaleRead"
    /\ \E c \in Cells :
          /\ res.list = <<c>>
          /\ params[c].strict
          /\ hist[c].everSet
          /\ hist[c].got
          /\ params[c].latest_value_in_measurement

\* C12 as stated: the values a parameter whose new value must differ holds
\* at two consecutive successful sweeps that include it are different.
C12_SweepValuesDiffer ==
    \A c \in DOMAIN track :
        (params[c].new_value_must_differ /\ track[c].prevVal # "never")
        => track[c].sweptVal # track[c].prevVal

\* C12 as amended: the values are different when exactly one successful set
\* of the parameter lies between the two sweeps; after two or more sets the
\* parameter may hold the value of the earlier sweep again.
C12_SweepValuesDifferAfterOneSet ==
    \A c \in DOMAIN track :
        (/\ params[c].new_value_must_differ
         /\ track[c].prevVal # "never"
         /\ track[c].between = "one")
        => track[c].sweptVal # track[c].prevVal

\* a second successful sweep has just recorded a parameter that was set
\* once since the sweep before
C12_Witness ==
    /\ Swept
    /\ res.status = "ok"
    /\ \E c \in DOMAIN track :
          /\ c \in Range(res.list)
          /\ params[c].new_value_must_differ
          /\ track[c].prevVal \notin {"never", NoValue}
          /\ track[c].between = "one"
          /\ track[c].sets = "none"

\* C14: every successful set(v) leaves the parameter with the value v, not
\* read and not recorded, whatever its state was; so right after it one get
\* of the parameter succeeds and one sweep over the parameter alone succeeds.
C14_SetLeavesFreshValue ==
    [][\A c \in Cells, v \in Values :
          (SetStep(c, v) /\ res'.status = "ok") =>
             /\ params'[c].value = v
             /\ ~ params'[c].latest_value_read
             /\ ~ params'[c].latest_value_in_measurement
             /\ GetRaw(params'[c]).status = "ok"
             /\ Sweep(params', <<c>>, 1).status = "ok"]_vars

\* a set has just succeeded on a strict parameter that had been set and swept
\* before
C14_Witness ==
    /\ res.op = "set"
    /\ res.status = "ok"
    /\ \E c \in Cells :
          /\ res.list = <<c>>
          /\ params[c].strict
          /\ hist[c].swept
          /\ params[c].value = res.val
          /\ res.val # NoValue

\* C15: on a parameter that is not strict a get never fails, whatever was
\* read before: it returns the value of the most recent successful set (None
\* when there was none) and changes nothing but the read flag.
C15_NonStrictGetNeverFails ==
    [][\A c \in Cells :
          (GetStep(c) /\ ~ params[c].strict) =>
             /\ res'.status = "ok"
             /\ res'.val = hist[c].lastSet
             /\ params' = [params EXCEPT ![c].latest_value_read = TRUE]]_vars

\* a get has just returned the set value of a parameter that is not strict
\* and whose value a sweep has recorded since
C15_Witness ==
    /\ res.op = "get"
    /\ res.status = "ok"
    /\ \E c \in Cells :
          /\ res.list = <<c>>
          /\ ~ params[c].strict
          /\ hist[c].everSet
          /\ hist[c].claimed
          /\ res.val = hist[c].lastSet
          /\ res.val # NoValue

\* C16: on a parameter that was never successfully set, set(v) succeeds for
\* every value v, None included, also when the new value must differ.
C16_FirstSetSucceeds ==
    [][\A c \in Cells, v \in Values :
          (SetStep(c, v) /\ ~ hist[c].everSet) => res'.status = "ok"]_vars

\* C17: check_parameters_updated, whether it succeeds or fails, leaves the
\* value and the read flag of every parameter as they were.
C17_SweepKeepsValueAndRead ==
    [][\A list \in ParamLists :
          SweepStep(list) =>
             \A c \in Cells :
                /\ params'[c].value = params[c].value
                /\ params'[c].latest_value_read
                      = params[c].latest_value_read]_vars

(***************************************************************************)
(* annotate_runs and append_annotation (src/annotations.py).               *)
(*                                                                         *)
(* A text is a sequence of tokens and `+` on strings is \o; the marker of  *)
(* line 9 is one token.  The metadata of a run is a function from the keys *)
(* it holds to their values.                                               *)
(***************************************************************************)
_ANNOTATION_KEY == "post_measurement_annotation"

_ERROR_KEY == "errors_in_measurement"

_PLOTTR_KEY == "inspectr_tag"

_CROSS_KEY == "cross"

_ADDITIONAL_ANNOTATION_KEY == <<"\nADDITIONAL ANNOTATION: \n">>

\* None as the annotation argument; no text holds this token
None == <<"None">>

Runs == {"run1", "run2"}

\* run_ids: one run (an int stands for the one-element tuple, lines 39-40
\* and 82-83) or both runs in one tuple
RunIdLists == {<<r>> : r \in Runs} \cup {<<"run1", "run2">>}

\* the texts given as annotation
Notes == {<<>>, <<"a">>, <<"b">>}

Annotations == Notes \cup {None}

ErrorStates == {"None", "True", "False"}

\* other_metadata: None or a dict of items to add or update, here the tag
\* of plottr set by hand; the dict is written key by key
NoDict == [given |-> FALSE, items |-> <<>>]

OtherMetadata == {NoDict, [given |-> TRUE, items |-> [inspectr_tag |-> _CROSS_KEY]]}

\* what the data store may do with a value of None
NullOutcomes(value) == IF value = None THEN BOOLEAN ELSE {TRUE}

\* dataset.add_metadata(tag, value) on the metadata md of one run.  What the
\* data store keeps for a value of None is not fixed by this repository: the
\* key is kept with None (nullKept) or is not among the keys afterwards.
AddMetadata(md, tag, value, nullKept) ==
    IF value = None /\ ~ nullKept
        THEN [k \in DOMAIN md \ {tag} |-> md[k]]
        ELSE [k \in DOMAIN md \cup {tag} |-> IF k = tag THEN value ELSE md[k]]

\* lines 45-51 and 95-101: the error flag, the plottr tag, the other items
RECURSIVE AddItems(_, _, _)
AddItems(md, items, keys) ==
    IF keys = {} THEN md
    ELSE LET k == CHOOSE x \in keys : TRUE IN
         AddItems([x \in DOMAIN md \cup {k} |->
                      IF x = k THEN items[k] ELSE md[x]],
                  items, keys \ {k})

AddFlags(md, error_state, other_metadata, flag_in_plottr) ==
    LET flagged ==
            IF error_state = "None" THEN md
            ELSE [k \in DOMAIN md \cup {_ERROR_KEY} |->
                     IF k = _ERROR_KEY THEN error_state ELSE md[k]]
        tagged ==
            IF error_state = "True" /\ flag_in_plottr
                THEN [k \in DOMAIN flagged \cup {_PLOTTR_KEY} |->
                         IF k = _PLOTTR_KEY THEN _CROSS_KEY ELSE flagged[k]]
                ELSE flagged
    IN  IF other_metadata.given
            THEN AddItems(tagged, other_metadata.items,
                          DOMAIN other_metadata.items)
            ELSE tagged

\* lines 42-51 for one run
AnnotateRun(md, annotation, error_state, other_metadata, flag_in_plottr) ==
    AddFlags(IF annotation # None
                 THEN AddMetadata(md, _ANNOTATION_KEY, annotation, TRUE)
                 ELSE md,
             error_state, other_metadata, flag_in_plottr)

\* full_annotation of lines 87-93
FullAnnotation(md, annotation) ==
    LET old == IF _ANNOTATION_KEY \in DOMAIN md
                   THEN md[_ANNOTATION_KEY]
                        \o (IF annotation # None
                                THEN _ADDITIONAL_ANNOTATION_KEY ELSE <<>>)
                   ELSE <<>>
    IN  IF annotation # None THEN old \o annotation ELSE old

\* lines 85-101 for one run: full_annotation is computed (str += None raises
\* on line 89) and line 94 stores `annotation`
AppendRun(md, annotation, error_state, other_metadata, flag_in_plottr, nullKept) ==
    LET full_annotation == FullAnnotation(md, annotation) IN
    IF _ANNOTATION_KEY \in DOMAIN md /\ md[_ANNOTATION_KEY] = None
        THEN [md |-> md, status |-> "TypeError"]
        ELSE [md |-> AddFlags(AddMetadata(md, _ANNOTATION_KEY, annotation,
                                          nullKept),
                              error_state, other_metadata, flag_in_plottr),
              status |-> "ok"]

\* the loop of lines 41-51
RECURSIVE AnnotateLoop(_, _, _, _, _, _, _)
AnnotateLoop(store, run_ids, i, annotation, error_state, other_metadata, flag_in_plottr) ==
    IF i > Len(run_ids) THEN store
    ELSE AnnotateLoop([store EXCEPT ![run_ids[i]] =
                          AnnotateRun(@, annotation, error_state,
                                      other_metadata, flag_in_plottr)],
                      run_ids, i + 1, annotation, error_state,
                      other_metadata, flag_in_plottr)

\* the loop of lines 84-101; an exception ends it and keeps what was written
RECURSIVE AppendLoop(_, _, _, _, _, _, _, _)
AppendLoop(store, run_ids, i, annotation, error_state, other_metadata, flag_in_plottr, nullKept) ==
    IF i > Len(run_ids) THEN [store |-> store, status |-> "ok"]
    ELSE LET one == AppendRun(store[run_ids[i]], annotation, error_state,
                              other_metadata, flag_in_plottr, nullKept)
         IN  IF one.status # "ok"
                 THEN [store |-> store, status |-> one.status]
                 ELSE AppendLoop([store EXCEPT ![run_ids[i]] = one.md],
                                 run_ids, i + 1, annotation, error_state,
                                 other_metadata, flag_in_plottr, nullKept)

NoNote == [op |-> "none", run_ids |-> <<>>, annotation |-> None,
           status |-> "ok"]

\* the runs of the data store, none annotated yet
AnnotInit ==
    /\ metadata = [r \in Runs |-> <<>>]
    /\ note = NoNote
    /\ components = <<>>
    /\ configurations = <<>>
    /\ last = <<>>
    /\ params = <<>>
    /\ hist = <<>>
    /\ res = <<>>
    /\ track = <<>>

\* annotate_runs(run_ids, annotation, error_state, other_metadata,
\*               flag_in_plottr)
AnnotateRuns(run_ids, annotation, error_state, other_metadata, flag_in_plottr) ==
    /\ metadata' = AnnotateLoop(metadata, run_ids, 1, annotation, error_state,
                                other_metadata, flag_in_plottr)
    /\ note' = [op |-> "annotate_runs", run_ids |-> run_ids,
                annotation |-> annotation, status |-> "ok"]
    /\ UNCHANGED <<stationVars, cellVars>>

\* append_annotation(run_ids, annotation, error_state, other_metadata,
\*                   flag_in_plottr)
AppendAnnotation(run_ids, annotation, error_state, other_metadata, flag_in_plottr, nullKept) ==
    LET done == AppendLoop(metadata, run_ids, 1, annotation, error_state,
                           other_metadata, flag_in_plottr, nullKept)
    IN  /\ metadata' = done.store
        /\ note' = [op |-> "append_annotation", run_ids |-> run_ids,
                    annotation |-> annotation, status |-> done.status]
        /\ UNCHANGED <<stationVars, cellVars>>

AnnotNext ==
    \/ \E run_ids \in RunIdLists, annotation \in Annotations,
          error_state \in ErrorStates, other_metadata \in OtherMetadata,
          flag_in_plottr \in BOOLEAN :
          AnnotateRuns(run_ids, annotation, error_state, other_metadata,
                       flag_in_plottr)
    \/ \E run_ids \in RunIdLists, annotation \in Annotations,
          error_state \in ErrorStates, other_metadata \in OtherMetadata,
          flag_in_plottr \in BOOLEAN :
       \E nullKept \in NullOutcomes(annotation) :
          AppendAnnotation(run_ids, annotation, error_state, other_metadata,
                           flag_in_plottr, nullKept)

(***************************************************************************)
(* Claims about append_annotation.                                         *)
(***************************************************************************)
\* an append_annotation call with a text has just returned
AppendStep == note'.op = "append_annotation" /\ note'.annotation # None

\* C13: append_annotation appends without overwriting: a run that stores an
\* annotation old holds old, the marker and the new text after
\* append_annotation(run, new) with new not None, and a run that stores no
\* annotation holds new.
C13_AppendKeepsOld ==
    [][\A r \in Runs :
          (AppendStep /\ note'.run_ids = <<r>> /\ note'.status = "ok") =>
             /\ _ANNOTATION_KEY \in DOMAIN metadata'[r]
             /\ metadata'[r][_ANNOTATION_KEY] =
                   IF _ANNOTATION_KEY \in DOMAIN metadata[r]
                       THEN metadata[r][_ANNOTATION_KEY]
                            \o _ADDITIONAL_ANNOTATION_KEY
                            \o note'.annotation
                       ELSE note'.annotation]_vars

(***************************************************************************)
(* Specifications.                                                         *)
(***************************************************************************)
\* the DynamicStation under every catalogue and registry (no parameter is
\* constructed)
Spec == StationInit /\ [][StationNext]_vars

\* the same station built without components
SpecProfiles == ProfilesInit /\ [][StationNext]_vars

\* the MustUpdateParameter objects and the sweeps over them (no station is
\* constructed)
SpecCells == CellsInit /\ [][CellsNext]_vars

\* the same, with the history of the values at the sweeps kept for Y
SpecRefresh == RefreshInit /\ [][CellsNext]_vars

\* the annotation helpers over the runs of a data store
SpecAnnot == AnnotInit /\ [][AnnotNext]_vars
====
